---------------------------- MODULE Spec2Model ----------------------------
(***************************************************************************)
(* A model of gallia's logging core, src/gallia/log.py: the severity       *)
(* registry (add_logging_level), the record factory with its call-site     *)
(* correction, the Logger entry points, the two handlers (ConsoleHandler,  *)
(* ZstdFileHandler) and the JSON formatter.                                *)
(*                                                                         *)
(* Text is a sequence of tokens (a token is a short string); "\n" is the   *)
(* one-token line terminator.  A stack frame is <<file, line>>.            *)
(***************************************************************************)
EXTENDS Integers, Sequences, FiniteSets, TLC

VARIABLES
    registry,   \* the logging module's level table and attributes
    regCall,    \* the last add_logging_level call and how it ended
    loggerLevel,\* each logger's threshold (Logger.level)
    userStack,  \* the frames of the calling code, innermost (the caller) first
    zstd,       \* the ZstdFileHandler: compressor buffer, file, open or closed
    zlog,       \* the records whose ZstdFileHandler.emit returned
    console,    \* what ConsoleHandler has printed on stderr
    last,       \* the last Logger call and how it ended
    ncalls,     \* Logger calls made so far
    pc,         \* per thread: where it is in Handler.handle / close
    lock,       \* per handler: the owner of its lock (Handler.lock), or NoThread
    inflight,   \* per thread: the record it is handling and its formatted line
    raced       \* the threads whose write overlapped a flush or close

regVars  == <<registry, regCall>>
logVars  == <<loggerLevel, userStack, zstd, zlog, console, last, ncalls>>
concVars == <<pc, lock, inflight, raced>>
vars     == <<registry, regCall, loggerLevel, userStack, zstd, zlog, console, last,
              ncalls, pc, lock, inflight, raced>>

---------------------------------------------------------------------------
(* Bounds of the model.                                                    *)
MaxCalls == 2          \* Logger calls per run
MaxUserDepth == 3      \* frames of calling code on the stack
ZBlockSize == 40       \* tokens the compressor buffers before it writes a block

---------------------------------------------------------------------------
(* The severity registry.                                                  *)

\* The numeric levels of the standard library and of the two extensions.
TRACE == 5
DEBUG == 10
INFO == 20
NOTICE == 25
WARNING == 30
ERROR == 40
CRITICAL == 50

\* str.lower() on the level names the model registers.
Lower(s) ==
    CASE s = "TRACE" -> "trace"
      [] s = "NOTICE" -> "notice"
      [] s = "VERBOSE" -> "verbose"
      [] s = "Info" -> "info"
      [] s = "EMERGENCY" -> "emergency"
      [] OTHER -> s

\* The logging module as imported, before log.py touches it: the level
\* constants, the module's functions, the Logger class's methods and the
\* number -> name table.
BaseLogging ==
    [ levels      |-> ("DEBUG" :> DEBUG @@ "INFO" :> INFO @@ "WARNING" :> WARNING
                       @@ "ERROR" :> ERROR @@ "CRITICAL" :> CRITICAL),
      funcs       |-> {"debug", "info", "warning", "error", "critical", "log"},
      methods     |-> {"debug", "info", "warning", "error", "critical", "log"},
      levelToName |-> (DEBUG :> "DEBUG" @@ INFO :> "INFO" @@ WARNING :> "WARNING"
                       @@ ERROR :> "ERROR" @@ CRITICAL :> "CRITICAL") ]

\* hasattr(logging, name)
HasAttr(reg, name) == name \in DOMAIN reg.levels \/ name \in reg.funcs

\* The three guards of add_logging_level: the name, the accessor on the
\* module, the accessor on the logger class.
AddLevelRaises(reg, level_name, level_num) ==
    \/ HasAttr(reg, level_name)
    \/ HasAttr(reg, Lower(level_name))
    \/ Lower(level_name) \in reg.methods

\* add_logging_level(level_name, level_num): the registry afterwards.
add_logging_level(reg, level_name, level_num) ==
    IF AddLevelRaises(reg, level_name, level_num)
    THEN reg
    ELSE [ levels      |-> (level_name :> level_num) @@ reg.levels,
           funcs       |-> reg.funcs \cup {Lower(level_name)},
           methods     |-> reg.methods \cup {Lower(level_name)},
           levelToName |-> (level_num :> level_name) @@ reg.levelToName ]

\* The registry once log.py is imported: TRACE and NOTICE are registered.
Bootstrap ==
    add_logging_level(add_logging_level(BaseLogging, "TRACE", TRACE),
                      "NOTICE", NOTICE)

RegNames == {"TRACE", "NOTICE", "VERBOSE", "Info", "EMERGENCY"}
RegNums == {5, 15, 25, 60}

NoCall == [op |-> "none", name |-> "", num |-> 0, nameExisted |-> FALSE,
           rankExisted |-> FALSE, accessorExisted |-> FALSE,
           raised |-> "none", before |-> BaseLogging]

\* One call of add_logging_level by the program, recorded in regCall.
AddLoggingLevel ==
    \E name \in RegNames, num \in RegNums :
        /\ registry' = add_logging_level(registry, name, num)
        /\ regCall' = [ op |-> "add_logging_level", name |-> name, num |-> num,
                        nameExisted |-> HasAttr(registry, name),
                        rankExisted |-> num \in DOMAIN registry.levelToName,
                        accessorExisted |-> (HasAttr(registry, Lower(name))
                                             \/ Lower(name) \in registry.methods),
                        raised |-> IF AddLevelRaises(registry, name, num)
                                   THEN "AttributeError" ELSE "none",
                        before |-> registry ]
        /\ UNCHANGED <<logVars, concVars>>

---------------------------------------------------------------------------
(* Records, messages and the call stack.                                   *)

LogFile == "gallia/log.py"
StdFile == "logging/__init__.py"
AppFile == "app.py"

Loggers == {"scanner", "root"}
Thresholds == {TRACE, DEBUG, INFO, NOTICE, WARNING}

\* The calling code's frames, the caller of the entry point first.
UserFrames(d) == [i \in 1..d |-> <<AppFile, 10 * i>>]

\* The entry points: the six methods of class Logger on a named logger, the
\* injected for_level methods on the root logger, and the module-level
\* to_root functions logging.trace / logging.notice.
FacadeEntries == {"trace", "notice", "preamble", "result", "write", "read"}
RootEntries == {"root.trace", "root.notice"}
ModuleEntries == {"logging.trace", "logging.notice"}
Entries == FacadeEntries \cup RootEntries \cup ModuleEntries

EntryLogger(e) == IF e \in FacadeEntries THEN "scanner" ELSE "root"

\* The severity each entry point logs at.
EntryLevel(e) ==
    CASE e \in {"trace", "root.trace", "logging.trace"} -> TRACE
      [] e \in {"notice", "root.notice", "logging.notice", "result"} -> NOTICE
      [] e = "preamble" -> INFO
      [] e \in {"write", "read"} -> DEBUG

\* A slip: result is tagged as preamble is.
EntryTagsCopied(e) ==
    CASE e = "preamble" -> <<"preamble">>
      [] e = "result" -> <<"preamble">>
      [] e = "write" -> <<"write">>
      [] e = "read" -> <<"read">>
      [] OTHER -> <<>>

\* The tags each entry point puts into extra (none: the key is absent).
EntryTags(e) ==
    CASE e = "preamble" -> <<"preamble">>
      [] e = "result" -> <<"result">>
      [] e = "write" -> <<"write">>
      [] e = "read" -> <<"read">>
      [] OTHER -> <<>>

\* The frame of the entry point's own body, at its call of _log / logging.log.
EntryFrame(e) ==
    CASE e = "trace" -> <<LogFile, 245>>
      [] e = "notice" -> <<LogFile, 265>>
      [] e = "preamble" -> <<LogFile, 287>>
      [] e = "result" -> <<LogFile, 309>>
      [] e = "write" -> <<LogFile, 331>>
      [] e = "read" -> <<LogFile, 353>>
      [] e \in RootEntries -> <<LogFile, 46>>
      [] e \in ModuleEntries -> <<LogFile, 49>>

\* The frames between the calling code and Logger._log, innermost first: the
\* entry point, and for to_root also logging.log and Logger.log.
WrapperFrames(e) ==
    IF e \in ModuleEntries
    THEN <<<<StdFile, 1>>, <<StdFile, 2>>, EntryFrame(e)>>
    ELSE <<EntryFrame(e)>>

\* inspect.stack() as _get_line_number sees it: itself, _record_factory,
\* makeRecord, _log, the wrappers, then the calling code.
StackAt(e, user) ==
    <<<<LogFile, 66>>, <<LogFile, 89>>, <<StdFile, 3>>, <<StdFile, 4>>>>
        \o WrapperFrames(e) \o user

\* _get_line_number(depth): stack[depth], an IndexError past the end.
get_line_number(stack, depth) ==
    IF depth + 1 <= Len(stack)
    THEN [raised |-> "none", frame |-> stack[depth + 1]]
    ELSE [raised |-> "IndexError", frame |-> <<"", 0>>]

\* Logger.findCaller, which gives _record_factory its fn and lno: the first
\* frame outside the logging package, walking out from _log's caller.
RECURSIVE FirstOutside(_)
FirstOutside(frames) ==
    IF frames = <<>> THEN <<"(unknown file)", 0>>
    ELSE IF Head(frames)[1] # StdFile THEN Head(frames)
    ELSE FirstOutside(Tail(frames))

findCaller(e, user) == FirstOutside(WrapperFrames(e) \o user)

custom_depth(name) == IF name = "root" THEN 7 ELSE 5

\* The levels whose call-site _record_factory replaces.
CorrectedLevel(level) == level = TRACE \/ level = NOTICE

\* _record_factory: the call-site of the record, or the IndexError of the
\* stack lookup.
record_factory(name, level, e, user) ==
    IF CorrectedLevel(level)
    THEN get_line_number(StackAt(e, user), custom_depth(name))
    ELSE [raised |-> "none", frame |-> findCaller(e, user)]

\* msg % args for %s placeholders: a TypeError when the counts differ.
RECURSIVE Percent(_, _)
Percent(msg, args) ==
    IF msg = <<>>
    THEN [raised |-> IF args = <<>> THEN "none" ELSE "TypeError", text |-> <<>>]
    ELSE IF Head(msg) = "%s"
         THEN IF args = <<>>
              THEN [raised |-> "TypeError", text |-> <<>>]
              ELSE LET r == Percent(Tail(msg), Tail(args))
                   IN [raised |-> r.raised, text |-> <<Head(args)>> \o r.text]
         ELSE LET r == Percent(Tail(msg), args)
              IN [raised |-> r.raised, text |-> <<Head(msg)>> \o r.text]

\* LogRecord.getMessage(): substitution only when there are arguments.
getMessage(record) ==
    IF record.args = <<>>
    THEN [raised |-> "none", text |-> record.msg]
    ELSE Percent(record.msg, record.args)

\* The tokens of a text joined into one string.
RECURSIVE Join(_)
Join(text) == IF text = <<>> THEN "" ELSE Head(text) \o Join(Tail(text))

NoRecord == [name |-> "", levelno |-> 0, levelname |-> "", pathname |-> "",
             lineno |-> 0, msg |-> <<>>, args |-> <<>>, tags |-> <<>>,
             exc |-> FALSE]

\* The LogRecord that Logger._log makes for entry point e and message m.
MakeRecord(reg, e, m, frame) ==
    [ name |-> EntryLogger(e), levelno |-> EntryLevel(e),
      levelname |-> reg.levelToName[EntryLevel(e)],
      pathname |-> frame[1], lineno |-> frame[2],
      msg |-> m.msg, args |-> m.args, tags |-> EntryTags(e), exc |-> m.exc ]

---------------------------------------------------------------------------
(* The structured formatter.                                               *)

\* class MessagePrio: the priority code of each severity name.
MessagePrio ==
    "EMERGENCY" :> 0 @@ "ALERT" :> 1 @@ "CRITICAL" :> 2 @@ "ERROR" :> 3
    @@ "WARNING" :> 4 @@ "NOTICE" :> 5 @@ "INFO" :> 6 @@ "DEBUG" :> 7
    @@ "TRACE" :> 8

\* A slip: NOTICE and INFO get each other's priority code.
level_to_priority_swapped ==
    TRACE :> MessagePrio["TRACE"] @@ DEBUG :> MessagePrio["DEBUG"]
    @@ INFO :> MessagePrio["NOTICE"] @@ NOTICE :> MessagePrio["INFO"]
    @@ WARNING :> MessagePrio["WARNING"] @@ ERROR :> MessagePrio["ERROR"]
    @@ CRITICAL :> MessagePrio["CRITICAL"]

\* level_to_priority: numeric level -> priority code.
level_to_priority ==
    TRACE :> MessagePrio["TRACE"] @@ DEBUG :> MessagePrio["DEBUG"]
    @@ INFO :> MessagePrio["INFO"] @@ NOTICE :> MessagePrio["NOTICE"]
    @@ WARNING :> MessagePrio["WARNING"] @@ ERROR :> MessagePrio["ERROR"]
    @@ CRITICAL :> MessagePrio["CRITICAL"]

\* json.dumps on a string: a line break becomes the two characters \n.
Escape(text) ==
    [i \in 1..Len(text) |-> IF text[i] = "\n" THEN "\\n" ELSE text[i]]

\* Formatter.formatException: a traceback, which spans lines.
formatException == <<"Traceback", "\n", "Error">>

\* json.dumps(d): the fields in the order format() fills them.
json_dumps(d) ==
    <<"{", "version:", "2", "component:", d.component, "host:", "HOST",
      "data:">> \o Escape(d.data)
    \o <<"timestamp:", "TS", "_python_level_no:", ToString(d.levelno),
         "_python_level_name:", d.levelname, "_python_func_name:", "FUNC",
         "priority:", ToString(d.priority)>>
    \o (IF d.hasTags THEN <<"tags:">> \o Escape(d.tags) ELSE <<>>)
    \o (IF d.hasStack THEN <<"stacktrace:">> \o Escape(d.stacktrace) ELSE <<>>)
    \o <<"line:", d.path, ":", ToString(d.lineno), "}">>

\* JsonFormatter.format(record): the line, or the exception of getMessage
\* (TypeError) or of the level_to_priority lookup (KeyError).
JsonFormat(record) ==
    LET m == getMessage(record)
    IN IF m.raised # "none" THEN [raised |-> m.raised, text |-> <<>>]
       ELSE IF record.levelno \notin DOMAIN level_to_priority
       THEN [raised |-> "KeyError", text |-> <<>>]
       ELSE [raised |-> "none",
             text |-> json_dumps(
                 [ component |-> record.name, data |-> m.text,
                   levelno |-> record.levelno, levelname |-> record.levelname,
                   priority |-> level_to_priority[record.levelno],
                   hasTags |-> record.tags # <<>>, tags |-> record.tags,
                   hasStack |-> record.exc, stacktrace |-> formatException,
                   path |-> record.pathname, lineno |-> record.lineno ])]

---------------------------------------------------------------------------
(* ZstdFileHandler.                                                        *)

ZstdOpen == [buf |-> <<>>, file |-> <<>>, ended |-> FALSE, closed |-> FALSE,
             fileClosed |-> FALSE]

\* The compressor writes a block to the file whenever it holds a full one.
RECURSIVE Drain(_)
Drain(z) ==
    IF Len(z.buf) >= ZBlockSize
    THEN Drain([z EXCEPT !.file = @ \o SubSeq(z.buf, 1, ZBlockSize),
                         !.buf = SubSeq(z.buf, ZBlockSize + 1, Len(z.buf))])
    ELSE z

\* zstd_writer.write(data)
ZWrite(z, data) == Drain([z EXCEPT !.buf = @ \o data])

\* A slip: emit() writes the formatted record as it is.
Unterminated(data) == data

\* The line emit() writes: the formatted record, newline-terminated.
Terminated(data) ==
    IF data # <<>> /\ data[Len(data)] = "\n" THEN data ELSE data \o <<"\n">>

\* ZstdFileHandler.emit(record)
ZstdEmit(z, record) ==
    LET f == JsonFormat(record)
    IN IF f.raised # "none" THEN [raised |-> f.raised, z |-> z]
       ELSE IF z.closed THEN [raised |-> "ValueError", z |-> z]
       ELSE [raised |-> "none", z |-> ZWrite(z, Terminated(f.text))]

\* zstd_writer.flush(): what the compressor holds goes to the file.
ZFlush(z) == [z EXCEPT !.file = @ \o z.buf, !.buf = <<>>]

\* zstd_writer.close(): the frame is ended and the writer closed.
ZFinish(z) == [ZFlush(z) EXCEPT !.ended = TRUE, !.closed = TRUE]

\* ZstdFileHandler.close(): flush, close the writer, close the file.  On a
\* closed writer flush() raises.
ZstdClose(z) ==
    IF z.closed THEN [raised |-> "ValueError", z |-> z]
    ELSE [raised |-> "none",
          z |-> [ZFinish(ZFlush(z)) EXCEPT !.fileClosed = TRUE]]

\* What decompressing the file yields: the text, once the frame is ended.
Decompress(z) == IF z.ended THEN z.file ELSE <<>>

\* The newline-terminated lines of a text, and what follows the last one.
RECURSIVE SplitLines(_, _, _)
SplitLines(text, cur, acc) ==
    IF text = <<>> THEN [lines |-> acc, rest |-> cur]
    ELSE IF Head(text) = "\n"
         THEN SplitLines(Tail(text), <<>>, Append(acc, cur))
         ELSE SplitLines(Tail(text), Append(cur, Head(text)), acc)

Lines(text) == SplitLines(text, <<>>, <<>>)

---------------------------------------------------------------------------
(* ConsoleHandler.                                                         *)

show_date == TRUE
show_component == TRUE

\* The style render() picks for a level.
Style(levelno) ==
    CASE levelno = TRACE -> "grey35"
      [] levelno = DEBUG -> "grey54"
      [] levelno = INFO -> ""
      [] levelno = NOTICE -> "bold"
      [] levelno = WARNING -> "bold yellow"
      [] levelno = ERROR -> "red"
      [] levelno = CRITICAL -> "bold red"
      [] OTHER -> ""

\* ConsoleHandler.render(record): the line and, with exc_info, the traceback.
render(record) ==
    LET m == getMessage(record)
        prefix == (IF show_date THEN <<"DATE">> ELSE <<>>)
                  \o (IF show_component
                      THEN (IF show_date THEN <<" ">> ELSE <<>>) \o <<record.name>>
                      ELSE <<>>)
                  \o (IF show_date \/ show_component THEN <<": ">> ELSE <<>>)
    IN IF m.raised # "none" THEN [raised |-> m.raised, out |-> <<>>]
       ELSE [raised |-> "none",
             out |-> <<[kind |-> "line", text |-> prefix \o m.text,
                        style |-> Style(record.levelno)]>>
                     \o (IF record.exc
                         THEN <<[kind |-> "traceback", text |-> formatException,
                                 style |-> ""]>>
                         ELSE <<>>)]

\* ConsoleHandler.emit(record): print the line, then the traceback.
ConsoleEmit(c, record) ==
    LET r == render(record)
    IN IF r.raised # "none" THEN [raised |-> r.raised, c |-> c]
       ELSE [raised |-> "none", c |-> c \o r.out]

---------------------------------------------------------------------------
(* A Logger call: threshold check, record, dispatch to the handlers.       *)

\* The handlers a record is dispatched to, in the order callHandlers visits
\* them.
Handlers == <<"zstd", "console">>

\* self.isEnabledFor(level)
isEnabledFor(name, level) == level >= loggerLevel[name]

\* A slip: preamble logs without testing its threshold.
EnabledExceptPreamble(e) ==
    e = "preamble" \/ isEnabledFor(EntryLogger(e), EntryLevel(e))

\* The guard of entry point e: each one tests isEnabledFor before _log.
Enabled(e) == isEnabledFor(EntryLogger(e), EntryLevel(e))

\* callHandlers: each handler's emit in turn; an exception of one ends the
\* loop and leaves through the entry point.  formats counts the getMessage
\* substitutions made.
RECURSIVE Dispatch(_, _, _)
Dispatch(hs, st, record) ==
    IF hs = <<>> THEN st
    ELSE IF Head(hs) = "zstd"
         THEN LET r == ZstdEmit(st.z, record)
              IN IF r.raised # "none"
                 THEN [st EXCEPT !.raised = r.raised, !.formats = @ + 1]
                 ELSE Dispatch(Tail(hs),
                               [st EXCEPT !.z = r.z, !.formats = @ + 1,
                                          !.delivered = Append(@, "zstd")],
                               record)
         ELSE LET r == ConsoleEmit(st.c, record)
              IN IF r.raised # "none"
                 THEN [st EXCEPT !.raised = r.raised, !.formats = @ + 1]
                 ELSE Dispatch(Tail(hs),
                               [st EXCEPT !.c = r.c, !.formats = @ + 1,
                                          !.delivered = Append(@, "console")],
                               record)

NoLast == [op |-> "none", entry |-> "", m |-> 0, enabled |-> FALSE,
           raised |-> "none", formats |-> 0, delivered |-> <<>>,
           made |-> FALSE, record |-> NoRecord, zclosedBefore |-> FALSE]

\* The message inputs, numbered.
MessageOf(k) ==
    CASE k = 1 -> [msg |-> <<"status=", "%s">>, args |-> <<"PASS">>, exc |-> FALSE]
      [] k = 2 -> [msg |-> <<"rx", "\n", "tx">>, args |-> <<>>, exc |-> TRUE]
      [] k = 3 -> [msg |-> <<"value=", "%s">>, args |-> <<"1", "2">>, exc |-> FALSE]

\* The calls the calling code makes: every entry point with the first
\* message, and the other two messages through two entry points each.
Calls ==
    {<<e, 1>> : e \in Entries}
        \cup {<<"notice", 2>>, <<"preamble", 2>>, <<"result", 3>>, <<"write", 3>>}

\* One call of entry point e with message k by the calling code.
LogCall ==
    \E call \in Calls : LET e == call[1]  k == call[2] IN
        /\ ncalls < MaxCalls
        /\ ncalls' = ncalls + 1
        /\ LET m == MessageOf(k)
               site == record_factory(EntryLogger(e), EntryLevel(e), e, userStack)
               rec == MakeRecord(registry, e, m, site.frame)
               st0 == [z |-> zstd, c |-> console, raised |-> "none",
                       formats |-> 0, delivered |-> <<>>]
               st == IF ~Enabled(e) THEN st0
                     ELSE IF site.raised # "none"
                     THEN [st0 EXCEPT !.raised = site.raised]
                     ELSE Dispatch(Handlers, st0, rec)
               made == Enabled(e) /\ site.raised = "none"
           IN /\ zstd' = st.z
              /\ console' = st.c
              /\ zlog' = IF \E i \in 1..Len(st.delivered) : st.delivered[i] = "zstd"
                         THEN Append(zlog, rec) ELSE zlog
              /\ last' = [ op |-> "log", entry |-> e, m |-> k,
                           enabled |-> Enabled(e), raised |-> st.raised,
                           formats |-> st.formats, delivered |-> st.delivered,
                           made |-> made,
                           record |-> IF made THEN rec ELSE NoRecord,
                           zclosedBefore |-> zstd.closed ]
        /\ UNCHANGED <<loggerLevel, userStack, regVars, concVars>>

\* The owning code closes the file handler.
HandlerClose ==
    /\ LET r == ZstdClose(zstd)
       IN /\ zstd' = r.z
          /\ last' = [NoLast EXCEPT !.op = "close", !.raised = r.raised,
                                    !.zclosedBefore = zstd.closed]
    /\ UNCHANGED <<loggerLevel, userStack, zlog, console, ncalls, regVars, concVars>>

NoThread == "none"
Threads == {"t1", "t2", "closer"}
Emitters == {"t1", "t2"}

NoFlight == [record |-> NoRecord, data |-> <<>>, raised |-> "none"]

ConcIdle ==
    /\ pc = [t \in Threads |-> "idle"]
    /\ lock = [h \in {"zstd", "console"} |-> NoThread]
    /\ inflight = [t \in Threads |-> NoFlight]
    /\ raced = {}

LogIdle ==
    /\ zstd = ZstdOpen
    /\ zlog = <<>>
    /\ console = <<>>
    /\ last = NoLast
    /\ ncalls = 0

\* After import: the registry bootstrapped, the handlers open and empty.
InitLog ==
    /\ registry = Bootstrap
    /\ regCall = NoCall
    /\ loggerLevel \in {[l \in Loggers |-> t] : t \in Thresholds}
    /\ userStack \in {UserFrames(d) : d \in 1..MaxUserDepth}
    /\ LogIdle
    /\ ConcIdle

NextLog == LogCall \/ HandlerClose

SpecLog == InitLog /\ [][NextLog]_vars

InitRegistry ==
    /\ registry = Bootstrap
    /\ regCall = NoCall
    /\ loggerLevel = [l \in Loggers |-> WARNING]
    /\ userStack = UserFrames(1)
    /\ LogIdle
    /\ ConcIdle

NextRegistry == AddLoggingLevel

SpecRegistry == InitRegistry /\ [][NextRegistry]_vars

---------------------------------------------------------------------------
(* Concurrent callers.  Handler.handle takes the handler's lock around     *)
(* emit; ZstdFileHandler.close takes no lock.  zstd_writer.write releases  *)
(* the interpreter lock while it compresses, so another thread can run     *)
(* between its start and its end.                                          *)

\* The calls the emitting threads make.
ConcCalls == {<<"result", 1>>, <<"notice", 2>>}

\* A thread calls an entry point: the record is made.
Start(t) ==
    /\ pc[t] = "idle"
    /\ ncalls < MaxCalls
    /\ \E c \in ConcCalls :
          LET site == record_factory(EntryLogger(c[1]), EntryLevel(c[1]), c[1], userStack)
          IN /\ Enabled(c[1])
             /\ inflight' = [inflight EXCEPT ![t] =
                   [NoFlight EXCEPT !.record =
                       MakeRecord(registry, c[1], MessageOf(c[2]), site.frame)]]
    /\ ncalls' = ncalls + 1
    /\ pc' = [pc EXCEPT ![t] = "z_acquire"]
    /\ UNCHANGED <<regVars, loggerLevel, userStack, zstd, zlog, console, last,
                   lock, raced>>

\* Handler.handle: self.acquire() of the file handler.
ZAcquire(t) ==
    /\ pc[t] = "z_acquire"
    /\ lock["zstd"] = NoThread
    /\ lock' = [lock EXCEPT !["zstd"] = t]
    /\ pc' = [pc EXCEPT ![t] = "z_format"]
    /\ UNCHANGED <<regVars, logVars, inflight, raced>>

\* emit: data = self.format(record), newline-terminated.
ZFormat(t) ==
    /\ pc[t] = "z_format"
    /\ LET f == JsonFormat(inflight[t].record)
       IN IF f.raised # "none"
          THEN /\ inflight' = [inflight EXCEPT ![t].raised = f.raised]
               /\ pc' = [pc EXCEPT ![t] = "z_release"]
          ELSE /\ inflight' = [inflight EXCEPT ![t].data = Terminated(f.text)]
               /\ pc' = [pc EXCEPT ![t] = "z_write"]
    /\ UNCHANGED <<regVars, logVars, lock, raced>>

\* emit: zstd_writer.write(data) starts; on a closed writer it raises.
ZWriteBegin(t) ==
    /\ pc[t] = "z_write"
    /\ IF zstd.closed
       THEN /\ inflight' = [inflight EXCEPT ![t].raised = "ValueError"]
            /\ pc' = [pc EXCEPT ![t] = "z_release"]
       ELSE /\ pc' = [pc EXCEPT ![t] = "z_inwrite"]
            /\ UNCHANGED inflight
    /\ UNCHANGED <<regVars, logVars, lock, raced>>

\* The text a write leaves in the stream: all of it, unless a flush or close
\* ran on the same compressor meanwhile; then any part of it.
Written(t, data) ==
    IF t \in raced
    THEN {SubSeq(data, 1, k) : k \in {0, Len(data) \div 2, Len(data)}}
    ELSE {data}

\* emit: zstd_writer.write(data) ends.
ZWriteEnd(t) ==
    /\ pc[t] = "z_inwrite"
    /\ \E w \in Written(t, inflight[t].data) :
          zstd' = IF zstd.fileClosed THEN zstd
                  ELSE IF zstd.closed THEN [zstd EXCEPT !.file = @ \o w]
                  ELSE ZWrite(zstd, w)
    /\ zlog' = Append(zlog, inflight[t].record)
    /\ raced' = raced \ {t}
    /\ pc' = [pc EXCEPT ![t] = "z_release"]
    /\ UNCHANGED <<regVars, loggerLevel, userStack, console, last, ncalls,
                   lock, inflight>>

\* Handler.handle: self.release(); an exception of emit leaves the call.
ZRelease(t) ==
    /\ pc[t] = "z_release"
    /\ lock' = [lock EXCEPT !["zstd"] = NoThread]
    /\ pc' = [pc EXCEPT ![t] = IF inflight[t].raised # "none" THEN "idle"
                               ELSE "c_acquire"]
    /\ UNCHANGED <<regVars, logVars, inflight, raced>>

\* Handler.handle: self.acquire() of the console handler.
CAcquire(t) ==
    /\ pc[t] = "c_acquire"
    /\ lock["console"] = NoThread
    /\ lock' = [lock EXCEPT !["console"] = t]
    /\ pc' = [pc EXCEPT ![t] = "c_line"]
    /\ UNCHANGED <<regVars, logVars, inflight, raced>>

\* ConsoleHandler.emit: render, then print the line.
CPrintLine(t) ==
    /\ pc[t] = "c_line"
    /\ LET r == render(inflight[t].record)
       IN IF r.raised # "none"
          THEN /\ inflight' = [inflight EXCEPT ![t].raised = r.raised]
               /\ pc' = [pc EXCEPT ![t] = "c_release"]
               /\ UNCHANGED console
          ELSE /\ console' = Append(console, r.out[1])
               /\ pc' = [pc EXCEPT ![t] = IF Len(r.out) > 1 THEN "c_tb"
                                          ELSE "c_release"]
               /\ UNCHANGED inflight
    /\ UNCHANGED <<regVars, loggerLevel, userStack, zstd, zlog, last, ncalls,
                   lock, raced>>

\* ConsoleHandler.emit: print the traceback.
CPrintTb(t) ==
    /\ pc[t] = "c_tb"
    /\ console' = Append(console, render(inflight[t].record).out[2])
    /\ pc' = [pc EXCEPT ![t] = "c_release"]
    /\ UNCHANGED <<regVars, loggerLevel, userStack, zstd, zlog, last, ncalls,
                   lock, inflight, raced>>

\* Handler.handle: self.release() of the console handler.
CRelease(t) ==
    /\ pc[t] = "c_release"
    /\ lock' = [lock EXCEPT !["console"] = NoThread]
    /\ pc' = [pc EXCEPT ![t] = "idle"]
    /\ UNCHANGED <<regVars, logVars, inflight, raced>>

\* The threads that are inside zstd_writer.write.
InWrite == {t \in Emitters : pc[t] = "z_inwrite"}

\* ZstdFileHandler.close, first statement: zstd_writer.flush().
CloseFlush ==
    /\ pc["closer"] = "idle"
    /\ IF zstd.closed
       THEN /\ pc' = [pc EXCEPT !["closer"] = "done"]
            /\ UNCHANGED <<zstd, raced>>
       ELSE /\ zstd' = ZFlush(zstd)
            /\ raced' = raced \cup InWrite
            /\ pc' = [pc EXCEPT !["closer"] = "finish"]
    /\ UNCHANGED <<regVars, loggerLevel, userStack, zlog, console, last, ncalls,
                   lock, inflight>>

\* ZstdFileHandler.close, second statement: zstd_writer.close().
CloseFinish ==
    /\ pc["closer"] = "finish"
    /\ zstd' = ZFinish(zstd)
    /\ raced' = raced \cup InWrite
    /\ pc' = [pc EXCEPT !["closer"] = "fileclose"]
    /\ UNCHANGED <<regVars, loggerLevel, userStack, zlog, console, last, ncalls,
                   lock, inflight>>

\* ZstdFileHandler.close, third statement: self.file.close().
CloseFile ==
    /\ pc["closer"] = "fileclose"
    /\ zstd' = [zstd EXCEPT !.fileClosed = TRUE]
    /\ pc' = [pc EXCEPT !["closer"] = "done"]
    /\ UNCHANGED <<regVars, loggerLevel, userStack, zlog, console, last, ncalls,
                   lock, inflight, raced>>

InitConc ==
    /\ registry = Bootstrap
    /\ regCall = NoCall
    /\ loggerLevel = [l \in Loggers |-> TRACE]
    /\ userStack = UserFrames(1)
    /\ LogIdle
    /\ ConcIdle

NextConc ==
    \/ \E t \in Emitters :
          \/ Start(t) \/ ZAcquire(t) \/ ZFormat(t) \/ ZWriteBegin(t)
          \/ ZWriteEnd(t) \/ ZRelease(t) \/ CAcquire(t) \/ CPrintLine(t)
          \/ CPrintTb(t) \/ CRelease(t)
    \/ CloseFlush \/ CloseFinish \/ CloseFile

SpecConc == InitConc /\ [][NextConc]_vars

---------------------------------------------------------------------------
(* Reading a structured line back.                                         *)

KeyTokens == {"version:", "component:", "host:", "data:", "timestamp:",
              "_python_level_no:", "_python_level_name:", "_python_func_name:",
              "priority:", "tags:", "stacktrace:", "line:", "}"}

\* json.loads on a string: the two characters \n become a line break.
Unescape(text) ==
    [i \in 1..Len(text) |-> IF text[i] = "\\n" THEN "\n" ELSE text[i]]

\* The tokens of line from position i up to the next key.
RECURSIVE ValueFrom(_, _)
ValueFrom(line, i) ==
    IF i > Len(line) \/ line[i] \in KeyTokens THEN <<>>
    ELSE <<line[i]>> \o ValueFrom(line, i + 1)

HasField(line, key) == \E i \in 1..Len(line) : line[i] = key

\* The value of field key of a structured line.
Field(line, key) ==
    LET i == CHOOSE j \in 1..Len(line) : line[j] = key
    IN Unescape(ValueFrom(line, i + 1))

\* Everything written to the compressed stream so far, in order.
Stream(z) == z.file \o z.buf

LastOf(seq) == seq[Len(seq)]

---------------------------------------------------------------------------
(* The claims.                                                             *)

\* C1 (as claimed): a registration whose name or whose numeric rank already
\* exists fails and leaves the registry unchanged; one whose name and rank
\* are both fresh succeeds and the level is then found by name and by number.
C1_RegisterContract ==
    regCall.op = "add_logging_level" =>
        /\ (regCall.nameExisted \/ regCall.rankExisted) =>
               (regCall.raised = "AttributeError" /\ registry = regCall.before)
        /\ (~regCall.nameExisted /\ ~regCall.rankExisted) =>
               /\ regCall.raised = "none"
               /\ regCall.name \in DOMAIN registry.levels
               /\ registry.levels[regCall.name] = regCall.num
               /\ registry.levelToName[regCall.num] = regCall.name

\* C2: a call of an entry point whose severity is below the logger's
\* threshold substitutes nothing into the template, reaches no handler, and
\* leaves both sinks as they were.
C2_DisabledCallIsFree ==
    /\ [](last.op = "log"
            /\ EntryLevel(last.entry) < loggerLevel[EntryLogger(last.entry)]
          => last.formats = 0 /\ last.delivered = <<>> /\ last.raised = "none")
    /\ [][(last'.op = "log" /\ ncalls' = ncalls + 1
            /\ EntryLevel(last'.entry) < loggerLevel[EntryLogger(last'.entry)])
          => (zstd' = zstd /\ console' = console /\ zlog' = zlog)]_vars

\* C2 witness: after a delivered call, a call below the threshold was made.
C2_Witness ==
    /\ last.op = "log"
    /\ EntryLevel(last.entry) < loggerLevel[EntryLogger(last.entry)]
    /\ ncalls = 2
    /\ Len(zlog) = 1
    /\ console # <<>>

\* C3: once the handler is closed, the decompressed file is exactly one
\* newline-terminated structured line per record whose emit returned, in
\* emission order, each carrying that record's component, message and
\* call-site.
C3_ClosedFileHoldsEveryRecord ==
    zstd.fileClosed =>
        LET L == Lines(Decompress(zstd))
        IN /\ L.rest = <<>>
           /\ Len(L.lines) = Len(zlog)
           /\ \A i \in 1..Len(zlog) :
                 /\ L.lines[i][1] = "{"
                 /\ LastOf(L.lines[i]) = "}"
                 /\ Field(L.lines[i], "component:") = <<zlog[i].name>>
                 /\ Field(L.lines[i], "data:") = getMessage(zlog[i]).text
                 /\ Field(L.lines[i], "_python_level_no:")
                        = <<ToString(zlog[i].levelno)>>
                 /\ Field(L.lines[i], "line:")
                        = <<zlog[i].pathname, ":", ToString(zlog[i].lineno)>>

\* C3 witness: two different records were emitted, the second with a line
\* break in its message, and the handler was closed.
C3_Witness ==
    /\ zstd.fileClosed
    /\ Len(zlog) = 2
    /\ zlog[1].levelno # zlog[2].levelno
    /\ \E i \in 1..Len(zlog[2].msg) : zlog[2].msg[i] = "\n"
    /\ last.op = "close"

\* C4 (as claimed): whatever the interleaving of emitting and closing
\* threads, the compressed stream is a sequence of whole lines, each the
\* line of one record whose emit returned, and on the terminal a traceback
\* directly follows the line of its own record.
C4_RecordsNeverTorn ==
    /\ LET L == Lines(Stream(zstd))
       IN /\ L.rest = <<>>
          /\ \A i \in 1..Len(L.lines) :
                \E j \in 1..Len(zlog) : L.lines[i] = JsonFormat(zlog[j]).text
    /\ \A i \in 1..Len(console) :
          console[i].kind = "traceback" => (i > 1 /\ console[i - 1].kind = "line")

\* C5 (as claimed): the call-site of every record made through an entry
\* point is the frame of the code that called the entry point.
C5_CallSiteIsCaller ==
    (last.op = "log" /\ last.made) =>
        <<last.record.pathname, last.record.lineno>> = userStack[1]

\* The severity and tag the specification gives each entry point.
ClaimedLevel(e) ==
    CASE e = "preamble" -> 20
      [] e \in {"result", "notice", "root.notice", "logging.notice"} -> 25
      [] e \in {"write", "read"} -> 10
      [] OTHER -> 5

ClaimedTags(e) ==
    IF e \in {"preamble", "result", "write", "read"} THEN <<e>> ELSE <<>>

RequiredSeverities == <<"EMERGENCY", "ALERT", "CRITICAL", "ERROR", "WARNING",
                        "NOTICE", "INFO", "DEBUG", "TRACE">>

Position(s) == CHOOSE i \in 1..Len(RequiredSeverities) : RequiredSeverities[i] = s

RankedSeverities == {RequiredSeverities[i] : i \in 3..Len(RequiredSeverities)}

\* rank and priority order the severities of S as declared.
Monotonic(reg, S) ==
    \A a \in S, b \in S :
        /\ (Position(a) < Position(b)) <=> (MessagePrio[a] < MessagePrio[b])
        /\ (Position(a) < Position(b)) <=> (reg.levels[a] > reg.levels[b])

C8_SinkFailureIsolated ==
    (last.op = "log" /\ last.made /\ last.zclosedBefore /\ last.m # 3) =>
        /\ last.raised = "none"
        /\ \E i \in 1..Len(last.delivered) : last.delivered[i] = "console"

\* C9 (as claimed): a call whose template and arguments do not match raises
\* nothing and its record is delivered.
C9_FormatErrorNeverRaises ==
    (last.op = "log" /\ last.enabled /\ last.m = 3) =>
        /\ last.raised = "none"
        /\ last.delivered # <<>>

\* C10 (as claimed): only TRACE and NOTICE records get the call-site of
\* stack[depth], depth 7 for logger "root" and 5 otherwise, the others keep
\* the file and line passed in; and a depth beyond the stack gives an
\* "unknown" location and no exception.
C10_ResolverFailsClosed ==
    (last.op = "log" /\ last.enabled) =>
        LET e == last.entry
            depth == IF EntryLogger(e) = "root" THEN 7 ELSE 5
            stack == StackAt(e, userStack)
            site == <<last.record.pathname, last.record.lineno>>
        IN /\ last.raised # "IndexError"
           /\ last.made
           /\ (EntryLevel(e) \notin {5, 25}) => site = findCaller(e, userStack)
           /\ (EntryLevel(e) \in {5, 25} /\ depth < Len(stack)) =>
                  site = stack[depth + 1]
           /\ (EntryLevel(e) \in {5, 25} /\ depth >= Len(stack)) =>
                  last.record.pathname = "unknown"

=============================================================================
